---- MODULE Spec2Model ----
(***************************************************************************)
(* The Unigram trainer of tokenizers/src/models/unigram/trainer.rs as a    *)
(* state machine: seed construction, the E/M sub-iterations, the pruning   *)
(* control loop and the finalizer.                                         *)
(*                                                                         *)
(* Representation.  A char is its Unicode scalar value, a String the       *)
(* sequence of its chars.  An f64 score is a fixed-point integer in units  *)
(* of 0.0001 (so min_score_penalty_delta is 1).  An expected count is an   *)
(* integer number of halves (so expected_frequency_threshold 0.5 is 1).    *)
(* A HashMap<String, _> is a function on a set of Strings; the order in    *)
(* which a HashMap or HashSet is iterated is a nondeterministic choice.    *)
(***************************************************************************)
EXTENDS Integers, Sequences, FiniteSets, TLC

(* ------------------------------ bounds --------------------------------- *)

\* Most words of a training corpus.
MaxWords == 2
\* Largest occurrence count of a word.
MaxCount == 1
\* Largest vocab_size of a training run.
MaxVocabSize == 4
\* Largest n_sub_iterations of a training run.
MaxSubIterations == 2
\* Longest trained model handed to the finalizer on its own.
MaxModelLen == 2
\* Largest expected count (in halves) handed to run_m_step on its own.
MaxExpected == 3
\* Fewest chars of a seed list built on its own, as a distance below
\* SEED_SIZE.
MaxBelow == 1
\* The prefix shared by two words of such a corpus: this long, or this much
\* longer than MAX_PIECE_LENGTH.
MaxPrefix == 3

(* --------------------------- program constants ------------------------- *)

SEED_SIZE == 1000000
MAX_PIECE_LENGTH == 16
c_sentence_boundary == 0
expected_frequency_threshold == 1
min_score_penalty_delta == 1
\* f64::INFINITY, the minimum score of a model without pieces.
Infinity == 1000000000

BOS == <<60, 98, 111, 115, 62>>
EOS == <<60, 101, 111, 115, 62>>
UNK == <<60, 117, 110, 107, 62>>

(* ------------------------------ helpers -------------------------------- *)

\* The sum of s[lo..hi], by halves.
RECURSIVE SumBetween(_, _, _)
SumBetween(s, lo, hi) ==
    IF lo > hi THEN 0
    ELSE IF lo = hi THEN s[lo]
    ELSE LET mid == (lo + hi) \div 2
         IN SumBetween(s, lo, mid) + SumBetween(s, mid + 1, hi)

SeqSum(s) == SumBetween(s, 1, Len(s))

Range(s) == {s[i] : i \in 1..Len(s)}

\* Every order in which the elements of a HashSet, or the entries of a
\* HashMap, can be iterated.
RECURSIVE IterOrders(_)
IterOrders(S) ==
    IF S = {} THEN {<<>>}
    ELSE UNION {{<<e>> \o t : t \in IterOrders(S \ {e})} : e \in S}

\* Ord for [char] slices and Strings: lexicographic.
LexLess(s, t) ==
    \E k \in 1..Len(t) :
        /\ \A j \in 1..(k - 1) : j <= Len(s) /\ s[j] = t[j]
        /\ (k > Len(s) \/ s[k] < t[k])

\* f64::ln on the positive integers, rounded to 0.0001.
LnTable ==
  <<
     0, 6931, 10986, 13863, 16094, 17918, 19459, 20794, 21972, 23026,
     23979, 24849, 25649, 26391, 27081, 27726, 28332, 28904, 29444, 29957,
     30445, 30910, 31355, 31781, 32189, 32581, 32958, 33322, 33673, 34012,
     34340, 34657, 34965, 35264, 35553, 35835, 36109, 36376, 36636, 36889,
     37136, 37377, 37612, 37842, 38067, 38286, 38501, 38712, 38918, 39120,
     39318, 39512, 39703, 39890, 40073, 40254, 40431, 40604, 40775, 40943,
     41109, 41271, 41431, 41589, 41744, 41897, 42047, 42195, 42341, 42485,
     42627, 42767, 42905, 43041, 43175, 43307, 43438, 43567, 43694, 43820,
     43944, 44067, 44188, 44308, 44427, 44543, 44659, 44773, 44886, 44998,
     45109, 45218, 45326, 45433, 45539, 45643, 45747, 45850, 45951, 46052,
     46151, 46250, 46347, 46444, 46540, 46634, 46728, 46821, 46913, 47005,
     47095, 47185, 47274, 47362, 47449, 47536, 47622, 47707, 47791, 47875
  >>

\* Beyond the table, f64::ln within 1000 of SEED_SIZE, rounded to 0.0001:
\* ln(1_000_000) = 13.8155106 and ln(1_000_000 + d) = ln(1_000_000) +
\* d / 1_000_000 to that precision, computed in units of 0.0000001.
ln(x) ==
    CASE x <= Len(LnTable) -> LnTable[x]
      [] x > SEED_SIZE - 1000 /\ x < SEED_SIZE + 1000 ->
            (138155106 + 10 * (x - SEED_SIZE) + 500) \div 1000

\* digamma of trainer.rs evaluated at k/2, k = 1, 2, ..., rounded to 0.0001.
DigammaTable ==
  <<
     -19635, -5772, 365, 4228, 7032, 9228, 11032, 12561, 13889, 15061,
     16111, 17061, 17929, 18728, 19468, 20156, 20801, 21406, 21977, 22518,
     23030, 23518, 23982, 24427, 24852, 25260, 25652, 26029, 26393, 26743,
     27082, 27410, 27728, 28035, 28334, 28623, 28905, 29179, 29446, 29705,
     29958, 30205, 30446, 30681, 30911, 31136, 31356, 31571, 31781, 31987,
     32189, 32387, 32582, 32772, 32959, 33142, 33323, 33500, 33673, 33844,
     34012, 34178, 34340, 34500, 34658, 34813, 34965, 35116, 35264, 35410,
     35554, 35696, 35836, 35973, 36109, 36244, 36376, 36507, 36636, 36763,
     36889, 37013, 37136, 37257, 37377, 37495, 37612, 37728, 37842, 37955,
     38067, 38177, 38287, 38395, 38502, 38607, 38712, 38816, 38918, 39020,
     39120, 39220, 39318, 39416, 39513, 39608, 39703, 39797, 39890, 39982,
     40073, 40164, 40254, 40343, 40431, 40518, 40605, 40690, 40775, 40860
  >>

\* digamma(x) for x a number of halves; digamma(0.0) is -inf.
digamma(x) == IF x = 0 THEN -Infinity ELSE DigammaTable[x]

\* to_log_prob: score_i <- ln(score_i) - ln(sum of the scores).
to_log_prob(pieces) ==
    LET sum == SeqSum(<<>> \o [i \in 1..Len(pieces) |-> pieces[i].score])
        logsum == ln(sum)
    IN <<>> \o [i \in 1..Len(pieces) |->
                  [piece |-> pieces[i].piece,
                   score |-> ln(pieces[i].score) - logsum]]

is_valid_sentencepiece(char_string) ==
    LET n == Len(char_string)
    IN ~(char_string = <<>> \/ n > MAX_PIECE_LENGTH)

(* ----------------------- seed vocabulary builder ----------------------- *)

\* word_counts.keys() in iteration order `keys`, each followed by '\0'.
RECURSIVE flat_string(_)
flat_string(keys) ==
    IF keys = <<>> THEN <<>>
    ELSE Head(keys) \o <<c_sentence_boundary>> \o flat_string(Tail(keys))

\* all_chars: occurrences of every char other than '\0' over the keys.
all_chars(keys) ==
    LET chars == UNION {Range(keys[i]) : i \in 1..Len(keys)} \ {c_sentence_boundary}
    IN [c \in chars |->
          SeqSum([i \in 1..Len(keys) |->
                    Cardinality({j \in 1..Len(keys[i]) : keys[i][j] = c})])]

\* esaxx_rs::suffix: the internal nodes of the suffix tree of the text, each
\* with the substring it spells and the number of its occurrences.  A
\* substring is an internal node iff its occurrences are followed by at least
\* two different symbols, the end of the text being a symbol of its own.
Occurrences(text, s) ==
    {i \in 1..(Len(text) - Len(s) + 1) : SubSeq(text, i, i + Len(s) - 1) = s}

Followers(text, s) ==
    {IF i + Len(s) <= Len(text) THEN text[i + Len(s)] ELSE -1 :
        i \in Occurrences(text, s)}

suffix(text) ==
    LET n == Len(text)
        subs == {SubSeq(text, p[1], p[2]) :
                    p \in {q \in (1..n) \X (0..n) : q[1] <= q[2] + 1}}
    IN {<<s, Cardinality(Occurrences(text, s))>> :
           s \in {t \in subs : Cardinality(Followers(text, t)) >= 2}}

\* sall_chars.sort_by(|a, b| b.cmp(a)) on (count, char) tuples.
RECURSIVE SortCharsDesc(_)
SortCharsDesc(S) ==
    IF S = {} THEN <<>>
    ELSE LET top == CHOOSE a \in S : \A b \in S \ {a} :
                        a[1] > b[1] \/ (a[1] = b[1] /\ a[2] > b[2])
         IN <<top>> \o SortCharsDesc(S \ {top})

\* substr_index.sort_by(|a, b| b.cmp(a)) on (score, &[char]) tuples.
RECURSIVE SortSubstrDesc(_)
SortSubstrDesc(S) ==
    IF S = {} THEN <<>>
    ELSE LET top == CHOOSE a \in S : \A b \in S \ {a} :
                        a[1] > b[1] \/ (a[1] = b[1] /\ LexLess(b[2], a[2]))
         IN <<top>> \o SortSubstrDesc(S \ {top})

\* A variant of PushSubstrings that tests the ceiling before it pushes.
RECURSIVE PushWithinCeiling(_, _)
PushWithinCeiling(seed_sentencepieces, rest) ==
    IF rest = <<>> \/ Len(seed_sentencepieces) >= SEED_SIZE
    THEN seed_sentencepieces
    ELSE PushWithinCeiling(
             Append(seed_sentencepieces,
                    [piece |-> Head(rest)[2], score |-> Head(rest)[1]]),
             Tail(rest))

\* The loop over the sorted substr_index: push, then stop at SEED_SIZE.
RECURSIVE PushSubstrings(_, _)
PushSubstrings(seed_sentencepieces, rest) ==
    IF rest = <<>> THEN seed_sentencepieces
    ELSE LET pushed == Append(seed_sentencepieces,
                              [piece |-> Head(rest)[2], score |-> Head(rest)[1]])
         IN IF Len(pushed) >= SEED_SIZE THEN pushed
            ELSE PushSubstrings(pushed, Tail(rest))

\* The filter_map over the suffix nodes: (freq * len, string) of every node
\* of two chars or more, without '\0', that is a valid sentence piece.
filter_map_nodes(nodes) ==
    {<<node[2] * Len(node[1]), node[1]>> :
        node \in {m \in nodes :
                     /\ ~(Len(m[1]) <= 1)
                     /\ c_sentence_boundary \notin Range(m[1])
                     /\ is_valid_sentencepiece(m[1])}}

substr_index(keys) == filter_map_nodes(suffix(flat_string(keys)))

\* "Fill seed_sentencepieces": every (count, char) of sall_chars is pushed,
\* then the substrings by decreasing score, up to the ceiling.
fill_seed_sentencepieces(sall_chars, substrings) ==
    PushSubstrings(<<>> \o [i \in 1..Len(sall_chars) |->
                              [piece |-> <<sall_chars[i][2]>>,
                               score |-> sall_chars[i][1]]],
                   SortSubstrDesc(substrings))

make_seed_sentence_pieces(keys) ==
    LET counts == all_chars(keys)
        sall_chars == SortCharsDesc({<<counts[c], c>> : c \in DOMAIN counts})
    IN to_log_prob(fill_seed_sentencepieces(sall_chars, substr_index(keys)))

\* required_chars: every char of every word, as a String.
required_chars(word_counts) ==
    {<<c>> : c \in UNION {Range(w) : w \in DOMAIN word_counts}}

(* ------------------ collaborators: Unigram and Lattice ----------------- *)

\* The least score of a piece table; f64::INFINITY when it has no piece.
MinScore(table) ==
    IF table = <<>> THEN Infinity
    ELSE CHOOSE m \in {table[i].score : i \in 1..Len(table)} :
            \A i \in 1..Len(table) : m <= table[i].score

\* Unigram::from(&table, bos_id, eos_id, unk_id): the pieces in the order of
\* the table, the least score, the three reserved ids.  model.iter() yields
\* vocab in order and model.len() is Len(vocab).
UnigramFrom(table, bos_id, eos_id, unk_id) ==
    [vocab |-> table, min_score |-> MinScore(table),
     bos_id |-> bos_id, eos_id |-> eos_id, unk_id |-> unk_id]

\* The ways the lattice can split a word into pieces of the model; a char no
\* one-char piece covers stands alone (the unknown node).
RECURSIVE Segmentations(_, _)
Segmentations(word, P) ==
    IF word = <<>> THEN {<<>>}
    ELSE UNION {{<<SubSeq(word, 1, k)>> \o r :
                    r \in Segmentations(SubSeq(word, k + 1, Len(word)), P)} :
                 k \in {j \in 1..Len(word) :
                          \/ SubSeq(word, 1, j) \in P
                          \/ j = 1 /\ <<word[1]>> \notin P}}

CountIn(seg, piece) == Cardinality({k \in 1..Len(seg) : seg[k] = piece})

\* lattice.populate_marginal(freq, &mut expected): adds the word's expected
\* piece usage, weighted by freq.  The marginal puts half of its weight on
\* each of two segmentations (all of it on one when they are the same one);
\* counts are in halves.
populate_marginal(vocab, freq, seg1, seg2, expected) ==
    [i \in 1..Len(expected) |->
        expected[i] + freq * (CountIn(seg1, vocab[i].piece)
                              + CountIn(seg2, vocab[i].piece))]

(* ---------------------------- expectation step ------------------------- *)

\* A variant of panics_on_nan that goes on after a NaN z.
never_panics(z_is_nan) == FALSE

\* `if z.is_nan() { panic!(..) }`
panics_on_nan(z_is_nan) == z_is_nan

(* --------------------------- maximization step ------------------------- *)

\* A variant of below_threshold that also drops a count of exactly 0.5.
at_or_below_threshold(freq) == freq <= expected_frequency_threshold

\* `*freq < expected_frequency_threshold`
below_threshold(freq) == freq < expected_frequency_threshold

\* The loop over expected.iter().zip(pieces): (piece, freq) of every pair
\* that is not below the threshold.
RECURSIVE new_pieces(_, _)
new_pieces(pieces, expected) ==
    IF pieces = <<>> \/ expected = <<>> THEN <<>>
    ELSE LET rest == new_pieces(Tail(pieces), Tail(expected))
         IN IF below_threshold(Head(expected)) THEN rest
            ELSE <<[piece |-> Head(pieces).piece, score |-> Head(expected)]>>
                     \o rest

\* run_m_step: panics on a length mismatch, else returns the new pieces.
run_m_step(pieces, expected) ==
    IF Len(pieces) # Len(expected) THEN [panicked |-> TRUE, pieces |-> <<>>]
    ELSE LET kept == new_pieces(pieces, expected)
             sum == SeqSum([i \in 1..Len(kept) |-> kept[i].score])
             logsum == digamma(sum)
         IN [panicked |-> FALSE,
             pieces |-> [i \in 1..Len(kept) |->
                           [piece |-> kept[i].piece,
                            score |-> digamma(kept[i].score) - logsum]]]

(* -------------------------------- finalizer ---------------------------- *)

\* HashMap::insert
Insert(map, k, v) ==
    [x \in DOMAIN map \cup {k} |-> IF x = k THEN v ELSE map[x]]

\* model.iter().collect() into a HashMap: a later entry replaces an earlier.
existing_pieces(model) ==
    LET vocab == model.vocab
        last(p) == CHOOSE i \in 1..Len(vocab) :
                      /\ vocab[i].piece = p
                      /\ \A j \in (i + 1)..Len(vocab) : vocab[j].piece # p
    IN [p \in {vocab[i].piece : i \in 1..Len(vocab)} |-> vocab[last(p)].score]

\* f64 addition: inf + x is inf.
AddScore(x, y) == IF x = Infinity THEN Infinity ELSE x + y

\* A variant of next_penalty that leaves the penalty as it is.
same_penalty(min_score_penalty) == min_score_penalty

\* min_score_penalty += min_score_penalty_delta
next_penalty(min_score_penalty) == min_score_penalty + min_score_penalty_delta

\* The loop over required_chars, iterated in the order `chars`.
RECURSIVE insert_required(_, _, _, _)
insert_required(pieces, chars, model, min_score_penalty) ==
    IF chars = <<>> THEN pieces
    ELSE LET c == Head(chars)
             existing == existing_pieces(model)
         IN IF c \in DOMAIN existing
            THEN insert_required(Insert(pieces, c, existing[c]), Tail(chars),
                                 model, min_score_penalty)
            ELSE insert_required(
                     Insert(pieces, c, AddScore(model.min_score, min_score_penalty)),
                     Tail(chars), model, next_penalty(min_score_penalty))

\* `if pieces.len() == self.vocab_size as usize { break; }`
reached_vocab_size(pieces, vocab_size) == Cardinality(DOMAIN pieces) = vocab_size

\* The loop over model.iter(): insert what is absent, stop at vocab_size.
RECURSIVE fill_from_model(_, _, _)
fill_from_model(pieces, rest, vocab_size) ==
    IF rest = <<>> THEN pieces
    ELSE IF Head(rest).piece \in DOMAIN pieces
         THEN fill_from_model(pieces, Tail(rest), vocab_size)
         ELSE LET inserted == Insert(pieces, Head(rest).piece, Head(rest).score)
              IN IF reached_vocab_size(inserted, vocab_size) THEN inserted
                 ELSE fill_from_model(inserted, Tail(rest), vocab_size)

\* pieces.into_iter().collect() followed by the stable sort_by on descending
\* score: the entries in some iteration order of the map, sorted.  A stable
\* sort of an arbitrary order is any order with non-increasing scores.
RECURSIVE sorted_collect(_)
sorted_collect(S) ==
    IF S = {} THEN {<<>>}
    ELSE UNION {{<<e>> \o t : t \in sorted_collect(S \ {e})} :
                 e \in {x \in S : \A y \in S : y.score <= x.score}}

\* The three reserved pieces as finalize inserts them.
reserved_map == [p \in {BOS, EOS, UNK} |-> 0]

\* finalize: every final_pieces the call can return.
finalize(model, chars_set, vocab_size) ==
    UNION {LET pieces == fill_from_model(
                             insert_required(reserved_map, chars, model, 0),
                             model.vocab, vocab_size)
           IN sorted_collect({[piece |-> p, score |-> pieces[p]] :
                                 p \in DOMAIN pieces}) :
           chars \in IterOrders(chars_set)}

(* ------------------------------- the state ----------------------------- *)

VARIABLES
    pc,                \* where the run, or the call, is
    word_counts,       \* the corpus: word -> count
    vocab_size,        \* UnigramTrainer.vocab_size
    n_sub_iterations,  \* UnigramTrainer.n_sub_iterations
    sentences,         \* word_counts.into_iter().collect()
    req_chars,         \* required_chars of _train and finalize
    pieces,            \* the piece list
    model,             \* the scoring model
    expected,          \* the expected counts of run_e_step
    i_sent,            \* the sentence the E-step handles next
    iter,              \* the sub-iteration counter
    z_nan,             \* an E-step has obtained a NaN z
    result,            \* what a call returned
    result2,           \* what a second call returned
    fill               \* the seed list filled on its own

vars == <<pc, word_counts, vocab_size, n_sub_iterations, sentences, req_chars,
          pieces, model, expected, i_sent, iter, z_nan, result, result2, fill>>

Reserved ==
    <<[piece |-> BOS, score |-> 0], [piece |-> EOS, score |-> 0],
      [piece |-> UNK, score |-> 0]>>

NoModel == UnigramFrom(<<>>, 0, 1, 2)

desired_vocab_size == (vocab_size * 11) \div 10

(* ------------------------------ the inputs ----------------------------- *)

\* The corpora over the words U: at most MaxWords words, counts 1..MaxCount.
Corpora(U) ==
    UNION {[W -> 1..MaxCount] :
             W \in {X \in SUBSET U : X # {} /\ Cardinality(X) <= MaxWords}}

\* "a", "ab", "aba", "abb"
TrainWords == {<<97>>, <<97, 98>>, <<97, 98, 97>>, <<97, 98, 98>>}

\* and "\0a", "ba", "c", "bc", "ca", "abc", "<bos>a", "<bos>b"
SeedWords ==
    TrainWords \cup {<<0, 97>>, <<98, 97>>, <<99>>, <<98, 99>>, <<99, 97>>, <<97, 98, 99>>,
                     BOS \o <<97>>, BOS \o <<98>>}

\* No seed list has been filled on its own.
NoFill ==
    [n_chars |-> 0, prefix |-> 0, len |-> 0, substrings |-> <<>>,
     chars_first |-> FALSE]

Idle ==
    /\ sentences = <<>> /\ req_chars = {} /\ pieces = <<>> /\ model = NoModel
    /\ expected = <<>> /\ i_sent = 0 /\ iter = 0 /\ z_nan = FALSE
    /\ result = <<>> /\ result2 = <<>> /\ fill = NoFill

\* A trainer and a corpus, before _train.
Init ==
    /\ pc = "start"
    /\ word_counts \in Corpora(TrainWords)
    /\ vocab_size \in 1..MaxVocabSize
    /\ n_sub_iterations \in 0..MaxSubIterations
    /\ Idle

(* ------------------------------- _train -------------------------------- *)

\* _train up to the loop: the reserved pieces, the seed, the required chars,
\* the first model, the sentences.
Seed ==
    /\ pc = "start"
    /\ \E keys \in IterOrders(DOMAIN word_counts) :
          LET table == Reserved \o make_seed_sentence_pieces(keys)
          IN /\ pieces' = table
             /\ model' = UnigramFrom(table, 0, 1, 2)
             /\ sentences' = [i \in 1..Len(keys) |->
                                 <<keys[i], word_counts[keys[i]]>>]
    /\ req_chars' = required_chars(word_counts)
    /\ iter' = 0
    /\ pc' = "sub"
    /\ UNCHANGED <<fill, word_counts, vocab_size, n_sub_iterations, expected, i_sent,
                   z_nan, result, result2>>

\* `for iter in 0..self.n_sub_iterations`, and run_e_step up to its loop.
SubIteration ==
    /\ pc = "sub"
    /\ iter < n_sub_iterations
    /\ expected' = [i \in 1..Len(model.vocab) |-> 0]
    /\ i_sent' = 1
    /\ pc' = IF sentences = <<>> THEN "m_step" ELSE "e_step"
    /\ UNCHANGED <<fill, word_counts, vocab_size, n_sub_iterations, sentences,
                   req_chars, pieces, model, iter, z_nan, result, result2>>

\* One sentence of run_e_step: the marginal is added to expected, then a NaN
\* z panics.
EStepSentence ==
    /\ pc = "e_step"
    /\ LET string == sentences[i_sent][1]
           freq == sentences[i_sent][2]
           segs == Segmentations(string, {model.vocab[i].piece :
                                             i \in 1..Len(model.vocab)})
       IN \E seg1 \in segs, seg2 \in segs, nan \in BOOLEAN :
             /\ expected' = populate_marginal(model.vocab, freq, seg1, seg2, expected)
             /\ z_nan' = (z_nan \/ nan)
             /\ IF panics_on_nan(nan)
                THEN pc' = "aborted" /\ i_sent' = i_sent
                ELSE /\ i_sent' = i_sent + 1
                     /\ pc' = IF i_sent = Len(sentences) THEN "m_step" ELSE "e_step"
    /\ UNCHANGED <<fill, word_counts, vocab_size, n_sub_iterations, sentences,
                   req_chars, pieces, model, iter, result, result2>>

\* pieces = run_m_step(&pieces, &expected); model = Unigram::from(&pieces, ..)
MStep ==
    /\ pc = "m_step"
    /\ LET r == run_m_step(pieces, expected)
       IN IF r.panicked
          THEN pc' = "aborted" /\ UNCHANGED <<pieces, model, iter>>
          ELSE /\ pieces' = r.pieces
               /\ model' = UnigramFrom(r.pieces, 0, 1, 2)
               /\ iter' = iter + 1
               /\ pc' = "sub"
    /\ UNCHANGED <<fill, word_counts, vocab_size, n_sub_iterations, sentences,
                   req_chars, expected, i_sent, z_nan, result, result2>>

\* `if pieces.len() <= desired_vocab_size { break; }`
CheckSize ==
    /\ pc = "sub"
    /\ ~(iter < n_sub_iterations)
    /\ pc' = IF Len(pieces) <= desired_vocab_size THEN "finalize" ELSE "prune"
    /\ UNCHANGED <<fill, word_counts, vocab_size, n_sub_iterations, sentences,
                   req_chars, pieces, model, expected, i_sent, iter, z_nan,
                   result, result2>>

\* prune_sentence_pieces changes nothing; the loop starts over.
Prune ==
    /\ pc = "prune"
    /\ iter' = 0
    /\ pc' = "sub"
    /\ UNCHANGED <<fill, word_counts, vocab_size, n_sub_iterations, sentences,
                   req_chars, pieces, model, expected, i_sent, z_nan, result,
                   result2>>

\* model = self.finalize(model, required_chars)
Finalize ==
    /\ pc = "finalize"
    /\ \E final_pieces \in finalize(model, req_chars, vocab_size) :
          model' = UnigramFrom(final_pieces, 0, 1, 2)
    /\ pc' = "done"
    /\ UNCHANGED <<fill, word_counts, vocab_size, n_sub_iterations, sentences,
                   req_chars, pieces, expected, i_sent, iter, z_nan, result,
                   result2>>

Next ==
    \/ Seed
    \/ SubIteration
    \/ EStepSentence
    \/ MStep
    \/ CheckSize
    \/ Prune
    \/ Finalize

Spec == Init /\ [][Next]_vars

\* The states in which _train enters its loop.
InitLoop ==
    /\ pc = "sub"
    /\ word_counts \in Corpora(TrainWords)
    /\ vocab_size \in 1..MaxVocabSize
    /\ n_sub_iterations \in 0..MaxSubIterations
    /\ sentences \in {[i \in 1..Len(keys) |-> <<keys[i], word_counts[keys[i]]>>] :
                        keys \in IterOrders(DOMAIN word_counts)}
    /\ pieces = Reserved \o make_seed_sentence_pieces(
                                [i \in 1..Len(sentences) |-> sentences[i][1]])
    /\ model = UnigramFrom(pieces, 0, 1, 2)
    /\ req_chars = required_chars(word_counts)
    /\ expected = <<>> /\ i_sent = 0 /\ iter = 0 /\ z_nan = FALSE
    /\ result = <<>> /\ result2 = <<>> /\ fill = NoFill

NextLoop ==
    \/ SubIteration
    \/ EStepSentence
    \/ MStep
    \/ CheckSize
    \/ Prune
    \/ Finalize

\* The loop of _train and what follows it; the run is not stopped from
\* outside: a step that can be taken is taken.
FairLoop == InitLoop /\ [][NextLoop]_vars /\ WF_vars(NextLoop)

(* ------------------- the operations called on their own ---------------- *)

\* The sequences of length lo..hi over S.
SeqsOver(S, lo, hi) == UNION {[1..n -> S] : n \in lo..hi}

NoDuplicates(table) ==
    \A i, j \in 1..Len(table) : table[i].piece = table[j].piece => i = j

\* A corpus of the wider word set, before _train.
InitSeed ==
    /\ pc = "start"
    /\ word_counts \in Corpora(SeedWords)
    /\ vocab_size \in {MaxVocabSize}
    /\ n_sub_iterations \in {MaxSubIterations}
    /\ Idle

SpecSeed == InitSeed /\ [][Seed]_vars

\* The k-th char other than '\0': a char is a Unicode scalar value, and the
\* scalar values leave out the surrogates U+D800..U+DFFF.
CharAt(k) == IF k < 55296 THEN k ELSE k + 2048

\* The last len chars of CharAt(1), ..., CharAt(n), as a [char] slice.
LastChars(n, len) == [k \in 1..len |-> CharAt(n - len + k)]

\* The corpus of n chars with a shared prefix of p: the words P a and P b,
\* for P == LastChars(n, p), a == CharAt(1) and b == CharAt(2), and a word
\* that holds every other char once.  Its sall_chars after the sort: the
\* chars of P, counted twice, then the others, each by descending char.
SharedPrefixChars(n, p) ==
    [i \in 1..n |-> <<IF i <= p THEN 2 ELSE 1, CharAt(n - i + 1)>>] \o <<>>

\* Its suffix nodes, for a text of n + p + 3 chars: the empty string; '\0',
\* which ends the three words; and every suffix of P, which occurs twice,
\* once before a and once before b.  No other substring has two
\* continuations.
SharedPrefixNodes(n, p) ==
    {<<<<>>, n + p + 4>>, <<<<c_sentence_boundary>>, 3>>}
        \cup {<<LastChars(n, len), 2>> : len \in 1..p}

\* Its substr_index.
SharedPrefixSubstrings(n, p) == filter_map_nodes(SharedPrefixNodes(n, p))

\* What FillCall records of a filled seed list: its length, the entries
\* after the chars, and whether its first entries are the chars in order.
Filled(seed_sentencepieces, sall_chars) ==
    [len |-> Len(seed_sentencepieces),
     substrings |-> SubSeq(seed_sentencepieces, Len(sall_chars) + 1,
                           Len(seed_sentencepieces)),
     chars_first |-> \A i \in 1..Len(sall_chars) :
                        seed_sentencepieces[i].piece = <<sall_chars[i][2]>>]

\* make_seed_sentence_pieces about to fill the seed list of such a corpus.
InitFill ==
    /\ pc = "call_fill"
    /\ fill \in [n_chars : (SEED_SIZE - MaxBelow)..(SEED_SIZE + 1),
                 prefix : {0, MaxPrefix, MAX_PIECE_LENGTH + MaxPrefix},
                 len : {0}, substrings : {<<>>}, chars_first : {FALSE}]
    /\ word_counts = <<>> /\ vocab_size = MaxVocabSize /\ n_sub_iterations = 0
    /\ sentences = <<>> /\ req_chars = {} /\ pieces = <<>> /\ model = NoModel
    /\ expected = <<>> /\ i_sent = 0 /\ iter = 0 /\ z_nan = FALSE
    /\ result = <<>> /\ result2 = <<>>

FillCall ==
    /\ pc = "call_fill"
    /\ fill' = [n_chars |-> fill.n_chars, prefix |-> fill.prefix] @@
                Filled(to_log_prob(fill_seed_sentencepieces(
                           SharedPrefixChars(fill.n_chars, fill.prefix),
                           SharedPrefixSubstrings(fill.n_chars, fill.prefix))),
                       SharedPrefixChars(fill.n_chars, fill.prefix))
    /\ pc' = "filled"
    /\ UNCHANGED <<word_counts, vocab_size, n_sub_iterations, sentences,
                   req_chars, pieces, model, expected, i_sent, iter, z_nan,
                   result, result2>>

NextFill == Seed \/ FillCall

SpecFill == (InitSeed \/ InitFill) /\ [][NextFill]_vars

\* run_m_step about to be called on a piece list and an expected-count vector.
InitMStep ==
    /\ pc = "call_m_step"
    /\ pieces \in SeqsOver([piece : {<<97>>, <<98>>}, score : {-10000}],
                           0, MaxModelLen)
    /\ expected \in SeqsOver(0..MaxExpected, 0, MaxModelLen)
    /\ word_counts = <<>> /\ vocab_size = MaxVocabSize /\ n_sub_iterations = 0
    /\ sentences = <<>> /\ req_chars = {} /\ model = NoModel
    /\ i_sent = 0 /\ iter = 0 /\ z_nan = FALSE
    /\ result = <<>> /\ result2 = <<>> /\ fill = NoFill

MStepCall ==
    /\ pc = "call_m_step"
    /\ LET r == run_m_step(pieces, expected)
       IN IF r.panicked
          THEN pc' = "aborted" /\ UNCHANGED result
          ELSE result' = r.pieces /\ pc' = "returned"
    /\ UNCHANGED <<fill, word_counts, vocab_size, n_sub_iterations, sentences,
                   req_chars, pieces, model, expected, i_sent, iter, z_nan,
                   result2>>

NextMStep == Next \/ MStepCall

\* Training runs, and run_m_step called on its own.
SpecMStep == (Init \/ InitMStep) /\ [][NextMStep]_vars

\* finalize about to be called on a trained model and required chars.
InitFinalize ==
    /\ pc = "call_finalize"
    /\ model \in {UnigramFrom(t, 0, 1, 2) :
                    t \in {u \in SeqsOver([piece : {<<97>>, <<97, 98>>, UNK},
                                           score : {-20000, -19999}],
                                          1, MaxModelLen) : NoDuplicates(u)}}
    /\ req_chars \in SUBSET {<<97>>, <<98>>, <<99>>}
    /\ vocab_size \in 4..(MaxVocabSize + 1)
    /\ word_counts = <<>> /\ n_sub_iterations = 0 /\ sentences = <<>>
    /\ pieces = <<>> /\ expected = <<>> /\ i_sent = 0 /\ iter = 0
    /\ z_nan = FALSE /\ result = <<>> /\ result2 = <<>> /\ fill = NoFill

FinalizeCall ==
    /\ pc = "call_finalize"
    /\ result' \in finalize(model, req_chars, vocab_size)
    /\ pc' = "finalized"
    /\ UNCHANGED <<fill, word_counts, vocab_size, n_sub_iterations, sentences,
                   req_chars, pieces, model, expected, i_sent, iter, z_nan,
                   result2>>

\* A second call on the same model, required chars and vocab_size.
FinalizeAgain ==
    /\ pc = "finalized"
    /\ result2' \in finalize(model, req_chars, vocab_size)
    /\ pc' = "finalized_again"
    /\ UNCHANGED <<fill, word_counts, vocab_size, n_sub_iterations, sentences,
                   req_chars, pieces, model, expected, i_sent, iter, z_nan,
                   result>>

\* A call on the model the first call returned.
FinalizeOwnOutput ==
    /\ pc = "finalized"
    /\ result2' \in finalize(UnigramFrom(result, 0, 1, 2), req_chars, vocab_size)
    /\ pc' = "refinalized"
    /\ UNCHANGED <<fill, word_counts, vocab_size, n_sub_iterations, sentences,
                   req_chars, pieces, model, expected, i_sent, iter, z_nan,
                   result>>

NextFinalize == FinalizeCall \/ FinalizeAgain \/ FinalizeOwnOutput

SpecFinalize == InitFinalize /\ [][NextFinalize]_vars

(* -------------------------------- claims ------------------------------- *)

Pieces(table) == {table[i].piece : i \in 1..Len(table)}

\* C1: a training run that does not abort eventually leaves the pruning
\* control loop and reaches the finalizer, and when it leaves the loop the
\* piece list has at most desired_vocab_size entries.
C1_LeavesLoopWithinTarget ==
    /\ <>(pc \in {"finalize", "done", "aborted"})
    /\ [](pc = "finalize" => Len(pieces) <= desired_vocab_size)

HasReserved(table) ==
    /\ Len(table) >= 3
    /\ table[1].piece = BOS /\ table[2].piece = EOS /\ table[3].piece = UNK

\* C2: in the control loop, the initial piece list, every piece list an
\* M-step leaves and every model rebuilt from it hold <bos>, <eos>, <unk> at
\* positions 0, 1 and 2.
C2_ReservedAtFixedPositions ==
    pc \in {"sub", "e_step", "m_step", "prune", "finalize"}
        => HasReserved(pieces) /\ HasReserved(model.vocab)

\* The distinct pieces the reserved pieces, the required chars and the model
\* offer together.
Offered == {BOS, EOS, UNK} \cup req_chars \cup Pieces(model.vocab)

\* C3: the finalizer's output has exactly vocab_size entries when at least
\* vocab_size distinct pieces are offered, all of them otherwise, and never
\* more than vocab_size.
C3_ExactVocabSize ==
    pc = "finalized" =>
        /\ Len(result) <= vocab_size
        /\ Cardinality(Offered) >= vocab_size => Len(result) = vocab_size
        /\ Cardinality(Offered) < vocab_size => Len(result) = Cardinality(Offered)

\* The required chars the model does not hold.
Injected == req_chars \ Pieces(model.vocab)

ScoreIn(table, p) == (CHOOSE e \in Range(table) : e.piece = p).score

\* C4: the finalizer's output holds <bos>, <eos>, <unk> with score 0 and every
\* required char: with its trained score when the model holds it, otherwise
\* with min_score + k * 0.0001, k the number of chars injected before it.
C4_ReservedAndRequiredScores ==
    pc = "finalized" =>
        /\ \A r \in {BOS, EOS, UNK} : [piece |-> r, score |-> 0] \in Range(result)
        /\ \A c \in req_chars :
              Cardinality({i \in 1..Len(result) : result[i].piece = c}) = 1
        /\ \A c \in req_chars \cap Pieces(model.vocab) :
              ScoreIn(result, c) = ScoreIn(model.vocab, c)
        /\ \E order \in IterOrders(Injected) :
              \A k \in 1..Len(order) :
                 ScoreIn(result, order[k])
                    = model.min_score + (k - 1) * min_score_penalty_delta

\* Two chars were injected and one was copied from the model.
C4_Witness ==
    /\ pc = "finalized"
    /\ Cardinality(Injected) = 2
    /\ req_chars \cap Pieces(model.vocab) # {}

NonIncreasing(table) ==
    \A i \in 1..(Len(table) - 1) : table[i].score >= table[i + 1].score

IndexIn(table, p) == CHOOSE i \in 1..Len(table) : table[i].piece = p

\* C5: the finalizer's output is sorted by non-increasing score with the
\* pieces of equal score, the reserved pieces among them, in insertion order,
\* and a second run on the same inputs returns the same sequence.
C5_DeterministicOrder ==
    /\ pc \in {"finalized", "finalized_again"} =>
          /\ NonIncreasing(result)
          /\ IndexIn(result, BOS) < IndexIn(result, EOS)
          /\ IndexIn(result, EOS) < IndexIn(result, UNK)
    /\ pc = "finalized_again" => result2 = result

\* C6: the finalizer run on its own output, with the same required chars and
\* vocab_size, returns the same pieces and scores in the same order.
C6_Idempotent == pc = "refinalized" => result2 = result

\* The seed list of the run: the piece list after its reserved pieces.
SeedList == SubSeq(pieces, 4, Len(pieces))

Min(a, b) == IF a < b THEN a ELSE b
Max(a, b) == IF a > b THEN a ELSE b

\* The places of the corpus where the string s starts.
Places(s) ==
    {<<w, j>> \in (DOMAIN word_counts) \X (1..MAX_PIECE_LENGTH) :
        j + Len(s) - 1 <= Len(w) /\ SubSeq(w, j, j + Len(s) - 1) = s}

\* What follows s there: a char, or the end of the word.
After(s, place) ==
    IF place[2] + Len(s) <= Len(place[1])
    THEN place[1][place[2] + Len(s)] ELSE c_sentence_boundary

\* Every distinct single character of the corpus.
CorpusChars == {<<c>> : c \in UNION {Range(w) : w \in DOMAIN word_counts}}

\* Those other than the sentence boundary '\0'.
CountedChars == CorpusChars \ {<<c_sentence_boundary>>}

\* The multi-character substrings the seed builder retains: inside one word,
\* without '\0', at most MAX_PIECE_LENGTH chars, followed by two different
\* things.
Retained ==
    {s \in UNION {{SubSeq(w, i, j) : i \in 1..Len(w), j \in 1..Len(w)} :
                     w \in DOMAIN word_counts} :
        /\ Len(s) > 1 /\ Len(s) <= MAX_PIECE_LENGTH
        /\ c_sentence_boundary \notin Range(s)
        /\ Cardinality({After(s, pl) : pl \in Places(s)}) >= 2}

\* The raw score of a seed piece: occurrences, times the length.
RawScore(s) == Cardinality(Places(s)) * Len(s)

\* list holds n pieces of S, each once, raw scores non-increasing, and no
\* piece of S left out has a higher raw score than one in the list.
IsTopOf(list, S, n) ==
    /\ Len(list) = n
    /\ Pieces(list) \subseteq S /\ NoDuplicates(list)
    /\ \A i \in 1..(n - 1) : RawScore(list[i].piece) >= RawScore(list[i + 1].piece)
    /\ \A s \in S \ Pieces(list) : \A p \in Pieces(list) : RawScore(s) <= RawScore(p)

\* seed is the first n pieces of: the chars by descending count, then the
\* retained substrings by descending score.
IsSeedPrefix(seed, n, chars) ==
    LET nc == Min(n, Cardinality(chars))
    IN /\ Len(seed) = n
       /\ IsTopOf(SubSeq(seed, 1, nc), chars, nc)
       /\ IsTopOf(SubSeq(seed, nc + 1, n), Retained, n - nc)

\* fill holds the chars first and then m substrings: the longest suffixes of
\* the shared prefix, the highest scores, in order.
IsFilledWith(m) ==
    /\ fill.chars_first
    /\ fill.len = fill.n_chars + m
    /\ Len(fill.substrings) = m
    /\ \A k \in 1..m :
          fill.substrings[k].piece
             = LastChars(fill.n_chars, Min(fill.prefix, MAX_PIECE_LENGTH) - k + 1)

\* The retained substrings of the corpus behind fill: the suffixes of the
\* shared prefix of 2 to MAX_PIECE_LENGTH chars.
FillRetained == Max(0, Min(fill.prefix, MAX_PIECE_LENGTH) - 1)

\* C7 as stated: the seed list is the prefix of length at most SEED_SIZE of the
\* chars by descending count followed by the retained substrings by
\* descending score, and never has more than SEED_SIZE entries.
C7_SeedIsCappedPrefix ==
    /\ pc = "sub" =>
          IsSeedPrefix(SeedList,
                       Min(SEED_SIZE, Cardinality(CorpusChars) + Cardinality(Retained)),
                       CorpusChars)
    /\ pc = "filled" =>
          /\ fill.len <= SEED_SIZE
          /\ fill.n_chars <= SEED_SIZE =>
                IsFilledWith(Min(SEED_SIZE - fill.n_chars, FillRetained))

\* C7 amended: the seed list holds every char of the corpus other than '\0',
\* by descending count, followed by the first min(r, max(1, SEED_SIZE - c))
\* retained substrings by descending score, for c such chars and r retained
\* substrings.
C7_SeedKeepsAllChars ==
    /\ pc = "sub" =>
          LET c == Cardinality(CountedChars)
              r == Cardinality(Retained)
          IN /\ IsSeedPrefix(SeedList, c + Min(r, Max(1, SEED_SIZE - c)),
                             CountedChars)
             /\ Len(SeedList) <= Max(SEED_SIZE, c + 1)
             /\ \A i, j \in 1..Len(SeedList) :
                   Len(SeedList[i].piece) > 1 /\ Len(SeedList[j].piece) = 1 => j < i
    /\ pc = "filled" =>
          /\ IsFilledWith(Min(FillRetained, Max(1, SEED_SIZE - fill.n_chars)))
          /\ fill.len <= Max(SEED_SIZE, fill.n_chars + 1)

\* A seed list above SEED_SIZE that holds one retained substring and leaves
\* another out.
C7_Witness ==
    /\ pc = "filled"
    /\ fill.len > SEED_SIZE
    /\ Len(fill.substrings) > 0
    /\ Len(fill.substrings) < FillRetained

\* C8: once an E-step obtains a NaN z, or run_m_step is entered with lists of
\* different lengths, the run aborts: nothing is processed, produced or
\* rebuilt after it, and a run that returns a model has seen neither.
C8_FatalConditionAborts ==
    [][/\ z_nan' => pc' = "aborted"
       /\ pc \in {"m_step", "call_m_step"} /\ Len(pieces) # Len(expected)
             => pc' = "aborted" /\ UNCHANGED <<pieces, model, result>>
       /\ pc = "aborted" => UNCHANGED vars
       /\ pc' \in {"finalize", "done"} => ~z_nan']_vars

\* An E-step aborted on a NaN z with sentences left.
C8_Witness == pc = "aborted" /\ z_nan /\ i_sent < Len(sentences)

\* The indexes whose expected count is at least 0.5.
AtLeastHalf(counts) ==
    {i \in 1..Len(counts) : counts[i] >= expected_frequency_threshold}

\* new holds the pieces of old at the indexes of AtLeastHalf, in order.
IsRetainedOf(new, old, counts) ==
    LET kept == AtLeastHalf(counts)
        nth(j) == CHOOSE i \in kept : Cardinality({k \in kept : k < i}) = j - 1
    IN /\ Len(new) = Cardinality(kept)
       /\ \A j \in 1..Len(new) : new[j].piece = old[nth(j)].piece

\* C9: on lists of equal length run_m_step returns exactly the pieces whose
\* expected count is at least 0.5, each once and in input order; the piece
\* list of a training run never grows in the control loop.
C9_MStepRetainsAtLeastHalf ==
    [][/\ pc = "call_m_step" /\ Len(pieces) = Len(expected)
             => pc' = "returned" /\ IsRetainedOf(result', pieces, expected)
       /\ pc = "m_step" /\ pc' = "sub" => IsRetainedOf(pieces', pieces, expected)
       /\ pc \in {"sub", "e_step", "m_step", "prune"}
             => Len(pieces') <= Len(pieces)]_vars

\* run_m_step returned, having kept a piece at exactly 0.5 and dropped one.
C9_Witness ==
    /\ pc = "returned"
    /\ \E i \in 1..Len(expected) : expected[i] = expected_frequency_threshold
    /\ \E i \in 1..Len(expected) : expected[i] < expected_frequency_threshold
    /\ Len(result) > 0 /\ Len(result) < Len(pieces)

\* C10: no vocabulary of a training run holds two entries with the same
\* piece string.
C10_NoDuplicatePieces ==
    NoDuplicates(pieces) /\ NoDuplicates(model.vocab)

====
